---------------------------- MODULE Spec2Model ----------------------------
(***************************************************************************)
(* Model of sudoku-solver.py: the stack-based backtracking search          *)
(* (solve_backtracking) with its helpers move_is_valid, board_is_full,     *)
(* next_unassigned_cell and gen_possible_boards, and the two box lookup    *)
(* tables.  A board is a function [0..8 -> [0..8 -> 0..9]] (row, column,   *)
(* both 0-indexed as in the source); 0 is an empty cell.                   *)
(*                                                                         *)
(* numpy arrays are objects that are written in place, so every array has  *)
(* an identity: solution_stack holds the present values of the arrays on   *)
(* the stack and stack_ids their identities, board_id is the identity of   *)
(* the array last popped, and caller_board is the present value of the     *)
(* caller's array (identity 0), of which init_board is the value at the    *)
(* call.  A write to an array shows in every place that holds it.          *)
(***************************************************************************)
EXTENDS Integers, Sequences, FiniteSets

VARIABLES init_board, solution_stack, popped, result, pc,
          caller_board, stack_ids, board_id

vars == <<init_board, solution_stack, popped, result, pc, caller_board, stack_ids, board_id>>

(***************************************************************************)
(* Bounds of the input family.                                             *)
(***************************************************************************)
\* at most this many of the cells of VaryCells are emptied in an input
MaxEmpty == 4
\* at most this many of the cells of VaryCells hold a digit other than Solved's
MaxAlter == 1

(***************************************************************************)
(* Board geometry and the lookup tables.                                   *)
(***************************************************************************)
\* the declared stack capacity, which no code reads
SOLUTION_STACK_SIZE == 5000

Idx == 0..8

\* range(1, 10)
Digits == 1..9

\* a numpy array written as rows of a literal, indexed from 0
FromRows(t) == [r \in Idx |-> [c \in Idx |-> t[r + 1][c + 1]]]

sample_board ==
  FromRows(<< <<0, 0, 5, 1, 0, 3, 6, 0, 0>>,
              <<0, 9, 7, 6, 0, 5, 0, 8, 3>>,
              <<8, 0, 0, 0, 0, 0, 1, 2, 0>>,
              <<0, 0, 0, 3, 9, 7, 0, 0, 2>>,
              <<0, 0, 8, 0, 0, 0, 9, 0, 0>>,
              <<7, 0, 0, 5, 6, 8, 0, 0, 0>>,
              <<0, 7, 1, 0, 0, 0, 0, 0, 4>>,
              <<4, 8, 0, 2, 0, 1, 5, 6, 0>>,
              <<0, 0, 2, 9, 0, 4, 7, 0, 0>> >>)

boxes ==
  FromRows(<< <<1, 1, 1, 2, 2, 2, 3, 3, 3>>,
              <<1, 1, 1, 2, 2, 2, 3, 3, 3>>,
              <<1, 1, 1, 2, 2, 2, 3, 3, 3>>,
              <<4, 4, 4, 5, 5, 5, 6, 6, 6>>,
              <<4, 4, 4, 5, 5, 5, 6, 6, 6>>,
              <<4, 4, 4, 5, 5, 5, 6, 6, 6>>,
              <<7, 7, 7, 8, 8, 8, 9, 9, 9>>,
              <<7, 7, 7, 8, 8, 8, 9, 9, 9>>,
              <<7, 7, 7, 8, 8, 8, 9, 9, 9>> >>)

\* the table with the view of box 6 written as [3:6, 5:8]
box_num_to_view_shifted ==
  << [rows |-> 0..2, cols |-> 0..2], [rows |-> 0..2, cols |-> 3..5], [rows |-> 0..2, cols |-> 6..8],
     [rows |-> 3..5, cols |-> 0..2], [rows |-> 3..5, cols |-> 3..5], [rows |-> 3..5, cols |-> 5..7],
     [rows |-> 6..8, cols |-> 0..2], [rows |-> 6..8, cols |-> 3..5], [rows |-> 6..8, cols |-> 6..8] >>

\* np.s_[a:b, c:d] is rows a..b-1, columns c..d-1
box_num_to_view ==
  << [rows |-> 0..2, cols |-> 0..2], [rows |-> 0..2, cols |-> 3..5], [rows |-> 0..2, cols |-> 6..8],
     [rows |-> 3..5, cols |-> 0..2], [rows |-> 3..5, cols |-> 3..5], [rows |-> 3..5, cols |-> 6..8],
     [rows |-> 6..8, cols |-> 0..2], [rows |-> 6..8, cols |-> 3..5], [rows |-> 6..8, cols |-> 6..8] >>

\* the table indexed by column and row
which_box_swapped(row, col) == boxes[col][row]

which_box(row, col) == boxes[row][col]

\* the values held by the view of the box (only membership is ever asked of it)
get_box(b, box_num) ==
  {b[r][c] : r \in box_num_to_view[box_num].rows, c \in box_num_to_view[box_num].cols}

cell_is_empty(b, row, col) == b[row][col] = 0

\* the row and column tests alone
move_is_valid_nobox(b, num, row, col) ==
  /\ num \notin {b[row][c] : c \in Idx}
  /\ num \notin {b[r][col] : r \in Idx}

\* the row and box tests alone
move_is_valid_nocol(b, num, row, col) ==
  /\ num \notin {b[row][c] : c \in Idx}
  /\ num \notin get_box(b, which_box(row, col))

\* the column and box tests alone
move_is_valid_norow(b, num, row, col) ==
  /\ num \notin {b[r][col] : r \in Idx}
  /\ num \notin get_box(b, which_box(row, col))

move_is_valid(b, num, row, col) ==
  /\ num \notin {b[row][c] : c \in Idx}
  /\ num \notin {b[r][col] : r \in Idx}
  /\ num \notin get_box(b, which_box(row, col))

\* not np.any(board): every entry is zero
board_is_full_none(b) == \A r \in Idx : \A c \in Idx : b[r][c] = 0

\* np.all(board): every entry is non-zero
board_is_full(b) == \A r \in Idx : \A c \in Idx : b[r][c] # 0

\* the index pairs in column-major order
ScanOrder_colmajor == [i \in 1..81 |-> <<(i - 1) % 9, (i - 1) \div 9>>]

\* the 81 index pairs in the order numpy scans them (row-major)
ScanOrder == [i \in 1..81 |-> <<(i - 1) \div 9, (i - 1) % 9>>]

\* the comparison turned round: the filled entries
IsZeroAt_nonzero(b, p) == b[p[1]][p[2]] # 0

IsZeroAt(b, p) == b[p[1]][p[2]] = 0

\* np.argwhere(board == 0): the index pairs of the zero entries, in scan order
argwhere_zero(b) == SelectSeq(ScanOrder, LAMBDA p : IsZeroAt(b, p))

\* np.argwhere(board == 0)[0]; the caller handles the empty case (IndexError)
next_unassigned_cell(b) == argwhere_zero(b)[1]

\* np.copy(board) without the assignment
new_board_unset(b, row, col, num) == b

\* the assignment with row and column exchanged
new_board_swapped(b, row, col, num) == [b EXCEPT ![col][row] = num]

\* np.copy(board) followed by new_board[row, col] = num
new_board(b, row, col, num) == [b EXCEPT ![row][col] = num]

\* the arrays of one call of gen_possible_boards: 0 is the board passed in,
\* n in 1..9 the array np.copy makes in the iteration num = n
Arrays == 0..9

\* no copy: new_board is the board passed in
np_copy_alias(src, fresh) == src

\* np.copy(board) is a new array
np_copy(src, fresh) == fresh

\* the for loop of gen_possible_boards, from num on: mem is the present value
\* of each array, next_boards the arrays appended so far
RECURSIVE gen_loop(_, _, _, _, _)
gen_loop(mem, row, col, num, next_boards) ==
  IF num \notin Digits
    THEN [mem |-> mem, next_boards |-> next_boards]
    ELSE IF move_is_valid(mem[0], num, row, col)
           THEN LET a == np_copy(0, num)
                IN  gen_loop([mem EXCEPT ![a] = new_board(mem[0], row, col, num)],
                             row, col, num + 1, Append(next_boards, a))
           ELSE gen_loop(mem, row, col, num + 1, next_boards)

\* the loop run over range(9, 0, -1)
RECURSIVE gen_loop_desc(_, _, _, _, _)
gen_loop_desc(mem, row, col, num, next_boards) ==
  IF num \notin Digits
    THEN [mem |-> mem, next_boards |-> next_boards]
    ELSE IF move_is_valid(mem[0], num, row, col)
           THEN LET a == np_copy(0, num)
                IN  gen_loop_desc([mem EXCEPT ![a] = new_board(mem[0], row, col, num)],
                                  row, col, num - 1, Append(next_boards, a))
           ELSE gen_loop_desc(mem, row, col, num - 1, next_boards)

\* the values of the arrays appended, last one first
ValuesOf_reversed(run) ==
  [i \in 1..Len(run.next_boards) |-> run.mem[run.next_boards[Len(run.next_boards) + 1 - i]]]

\* the values, at the return, of the arrays a run of the loop appended
ValuesOf(run) == [i \in 1..Len(run.next_boards) |-> run.mem[run.next_boards[i]]]

\* a call of gen_possible_boards on an array of value b
gen_call(b, row, col) == gen_loop([a \in Arrays |-> b], row, col, 1, <<>>)

gen_possible_boards_desc(b, row, col) ==
  ValuesOf(gen_loop_desc([a \in Arrays |-> b], row, col, 9, <<>>))

\* the list returned, as the values of its arrays
gen_possible_boards(b, row, col) == ValuesOf(gen_call(b, row, col))

\* the arrays of the list returned
gen_arrays(b, row, col) == gen_call(b, row, col).next_boards

\* the value of the board passed in, after the call
gen_board_after(b, row, col) == gen_call(b, row, col).mem[0]

(***************************************************************************)
(* The inputs: the solved sample with some cells of VaryCells emptied or   *)
(* altered, its twin, the sample board itself, the sample board with a     *)
(* wrong given, and the all-empty board.                                   *)
(***************************************************************************)
\* the completion of sample_board
Solved ==
  FromRows(<< <<2, 4, 5, 1, 8, 3, 6, 9, 7>>,
              <<1, 9, 7, 6, 2, 5, 4, 8, 3>>,
              <<8, 3, 6, 7, 4, 9, 1, 2, 5>>,
              <<6, 1, 4, 3, 9, 7, 8, 5, 2>>,
              <<3, 5, 8, 4, 1, 2, 9, 7, 6>>,
              <<7, 2, 9, 5, 6, 8, 3, 4, 1>>,
              <<9, 7, 1, 8, 5, 6, 2, 3, 4>>,
              <<4, 8, 3, 2, 7, 1, 5, 6, 9>>,
              <<5, 6, 2, 9, 3, 4, 7, 1, 8>> >>)

EmptyBoard == [r \in Idx |-> [c \in Idx |-> 0]]

\* the cells in which the inputs differ from Solved
VaryCells == {<<0, 2>>, <<1, 2>>, <<1, 3>>, <<2, 2>>, <<2, 3>>}

\* Solved with the cells of VaryCells set as v says
Varied(v) ==
  [r \in Idx |-> [c \in Idx |-> IF <<r, c>> \in VaryCells THEN v[<<r, c>>] ELSE Solved[r][c]]]

VariedBoards ==
  {Varied(v) : v \in
     {w \in [VaryCells -> 0..9] :
        /\ Cardinality({p \in VaryCells : w[p] = 0}) <= MaxEmpty
        /\ Cardinality({p \in VaryCells : w[p] # 0 /\ w[p] # Solved[p[1]][p[2]]}) <= MaxAlter}}

\* the other completion of Solved with the four cells (1,2) (1,3) (2,2) (2,3) emptied
SolvedTwin ==
  Varied([p \in VaryCells |->
            IF p[1] = 0 THEN Solved[p[1]][p[2]] ELSE 13 - Solved[p[1]][p[2]]])

\* sample_board with one more given, 5 at (4, 8), that no completion has
SampleWrong == [sample_board EXCEPT ![4][8] = 5]

Inputs == VariedBoards \cup {sample_board, EmptyBoard, SolvedTwin, SampleWrong}

(***************************************************************************)
(* solve_backtracking.  popped is the sequence of boards popped so far     *)
(* (those show_board prints); the local variable board is its last one.    *)
(***************************************************************************)
board == popped[Len(popped)]

Top(s) == s[Len(s)]

\* the stack read at its top and left as it is
Rest_peek(s) == s

\* what deque.pop() leaves
Rest(s) == SubSeq(s, 1, Len(s) - 1)

\* the loop with appendleft in the place of append
append_all_left(s, bs) == bs \o s

\* for b in next_boards: solution_stack.append(b)
append_all(s, bs) == s \o bs

\* the identities in use: the caller's array, the board and the stack
LiveIds == {0, board_id} \cup {stack_ids[i] : i \in 1..Len(stack_ids)}

\* identities above it are of no array in use
FreshBase == CHOOSE m \in LiveIds : \A n \in LiveIds : n <= m

Init ==
  /\ init_board \in Inputs
  /\ caller_board = init_board
  /\ solution_stack = <<init_board>>
  /\ stack_ids = <<0>>
  /\ board_id = -1
  /\ popped = <<>>
  /\ result = <<>>
  /\ pc = "loop"

\* while len(solution_stack) > 0: board = solution_stack.pop(); show_board(board)
Pop ==
  /\ pc = "loop"
  /\ Len(solution_stack) > 0
  /\ popped' = Append(popped, Top(solution_stack))
  /\ solution_stack' = Rest(solution_stack)
  /\ board_id' = Top(stack_ids)
  /\ stack_ids' = Rest(stack_ids)
  /\ pc' = "popped"
  /\ UNCHANGED <<init_board, result, caller_board>>

\* if board_is_full(board): return board
ReturnBoard ==
  /\ pc = "popped"
  /\ board_is_full(board)
  /\ result' = <<board>>
  /\ pc' = "solved"
  /\ UNCHANGED <<init_board, solution_stack, popped, caller_board, stack_ids, board_id>>

\* next_unassigned_cell, gen_possible_boards and the pushes; indexing an empty
\* argwhere result raises IndexError, which nothing catches.  What the call
\* wrote to the board shows in every place that holds the board's array.
Expand ==
  /\ pc = "popped"
  /\ ~board_is_full(board)
  /\ IF Len(argwhere_zero(board)) = 0
       THEN /\ pc' = "crashed"
            /\ UNCHANGED <<solution_stack, stack_ids, caller_board>>
       ELSE \E cell \in {next_unassigned_cell(board)} :
            \E next_boards \in {gen_possible_boards(board, cell[1], cell[2])},
               arrays \in {gen_arrays(board, cell[1], cell[2])},
               after \in {gen_board_after(board, cell[1], cell[2])},
               base \in {FreshBase} :
            LET id(a) == IF a = 0 THEN board_id ELSE base + a
            IN  /\ solution_stack' =
                     append_all([i \in 1..Len(solution_stack) |->
                                   IF stack_ids[i] = board_id THEN after ELSE solution_stack[i]],
                                next_boards)
                /\ stack_ids' = append_all(stack_ids, [i \in 1..Len(arrays) |-> id(arrays[i])])
                /\ caller_board' = IF board_id = 0 THEN after ELSE caller_board
                /\ pc' = "loop"
  /\ UNCHANGED <<init_board, popped, result, board_id>>

\* the loop going on with the stack empty
ReturnNone_spin ==
  /\ pc = "loop"
  /\ Len(solution_stack) = 0
  /\ pc' = "loop"
  /\ UNCHANGED <<init_board, solution_stack, popped, result, caller_board, stack_ids, board_id>>

\* the loop ends with the stack empty: return None
ReturnNone ==
  /\ pc = "loop"
  /\ Len(solution_stack) = 0
  /\ pc' = "exhausted"
  /\ UNCHANGED <<init_board, solution_stack, popped, result, caller_board, stack_ids, board_id>>

Next == Pop \/ ReturnBoard \/ Expand \/ ReturnNone

Spec == Init /\ [][Next]_vars

\* the loop is sequential code: it keeps running while a step is possible
FairSpec == Spec /\ WF_vars(Next)

TypeOK ==
  /\ pc \in {"loop", "popped", "solved", "exhausted", "crashed"}
  /\ Len(result) <= 1
  /\ Len(stack_ids) = Len(solution_stack)

(***************************************************************************)
(* Sudoku notions the properties are stated in, defined from the rules     *)
(* (rows, columns, 3x3 boxes by arithmetic), not from the lookup tables.   *)
(***************************************************************************)
Cells == Idx \X Idx

At(g, p) == g[p[1]][p[2]]

NoZero(g) == \A p \in Cells : At(g, p) # 0

HasZero(g) == \E p \in Cells : At(g, p) = 0

NumZeros(g) == Cardinality({p \in Cells : At(g, p) = 0})

RowUnit(r) == [i \in 1..9 |-> <<r, i - 1>>]

ColUnit(c) == [i \in 1..9 |-> <<i - 1, c>>]

BoxUnit(k) == [i \in 1..9 |-> <<(3 * (k \div 3)) + ((i - 1) \div 3), (3 * (k % 3)) + ((i - 1) % 3)>>]

Units == {RowUnit(r) : r \in Idx} \cup {ColUnit(c) : c \in Idx} \cup {BoxUnit(k) : k \in Idx}

\* no digit twice among the non-zero cells of the unit
NoRepeat(g, u) ==
  \A i \in 1..8 : At(g, u[i]) # 0 => \A j \in (i + 1)..9 : At(g, u[j]) # At(g, u[i])

\* row, column and box uniqueness of the non-zero cells
Unique(g) == \A u \in Units : NoRepeat(g, u)

\* g with cell p set to d
Fill(g, p, d) == [g EXCEPT ![p[1]][p[2]] = d]

\* h keeps every non-zero cell of g
Extends(h, g) == \A p \in Cells : At(g, p) # 0 => At(h, p) = At(g, p)

\* the full valid grids that keep the non-zero cells of g
RECURSIVE Completions(_)
Completions(g) ==
  IF NoZero(g)
    THEN IF Unique(g) THEN {g} ELSE {}
    ELSE LET p == CHOOSE q \in Cells : At(g, q) = 0
         IN  UNION {Completions(h) : h \in {f \in {Fill(g, p, d) : d \in 1..9} : Unique(f)}}

\* Solved settles the inputs with many empty cells without enumerating
HasCompletion(g) ==
  \/ Unique(Solved) /\ NoZero(Solved) /\ Extends(Solved, g)
  \/ Completions(g) # {}

Terminal == {"solved", "exhausted", "crashed"}

Done == pc \in {"solved", "exhausted"}

(***************************************************************************)
(* C1: every grid solve_backtracking returns has no 0 and no digit twice   *)
(* in a row, a column or a box, whatever the initial grid.                 *)
(***************************************************************************)
C1_ReturnedGridValid ==
  pc = "solved" => NoZero(result[1]) /\ Unique(result[1])

(***************************************************************************)
(* C2: from an initial grid whose non-zero cells satisfy uniqueness, every *)
(* grid on the stack and every grid popped satisfies uniqueness (a popped  *)
(* grid is the top of the stack of the state before).                      *)
(***************************************************************************)
C2_StackUnique ==
  Unique(init_board) =>
    /\ \A i \in 1..Len(solution_stack) : Unique(solution_stack[i])
    /\ popped # <<>> => Unique(board)

C2_Witness ==
  /\ Unique(init_board)
  /\ Len(popped) >= 3
  /\ Len(solution_stack) >= 2
  /\ pc = "loop"

(***************************************************************************)
(* C3: for a consistent initial grid the search ends Solved, with a full   *)
(* valid grid, if a valid completion exists, and ends Exhausted only if    *)
(* none exists.                                                            *)
(***************************************************************************)
C3_Complete ==
  (Unique(init_board) /\ pc \in Terminal) =>
    /\ pc = "solved" <=> HasCompletion(init_board)
    /\ pc = "exhausted" <=> ~HasCompletion(init_board)
    /\ pc = "solved" => NoZero(result[1]) /\ Unique(result[1])

\* a consistent grid with no completion, found out after backtracking
C3_Witness ==
  /\ Unique(init_board)
  /\ pc = "exhausted"
  /\ Len(popped) >= 3

\* p and q share a row, a column or a 3x3 box (a cell shares all with itself)
SameUnit(p, q) ==
  \/ p[1] = q[1]
  \/ p[2] = q[2]
  \/ (p[1] \div 3 = q[1] \div 3) /\ (p[2] \div 3 = q[2] \div 3)

\* d is in no cell of the row, the column and the box of p
Legal(g, p, d) == \A q \in Cells : SameUnit(p, q) => At(g, q) # d

LegalDigits(g, p) == {d \in 1..9 : Legal(g, p, d)}

\* the empty cell of lowest row and, in that row, of lowest column
FirstEmpty(g) ==
  CHOOSE p \in Cells :
    /\ At(g, p) = 0
    /\ \A q \in Cells : At(g, q) = 0 => (p[1] < q[1] \/ (p[1] = q[1] /\ p[2] <= q[2]))

Max(S) == CHOOSE x \in S : \A y \in S : y <= x

\* the elements of a set of numbers in ascending order
RECURSIVE Ascending(_)
Ascending(S) == IF S = {} THEN <<>> ELSE Append(Ascending(S \ {Max(S)}), Max(S))

\* a grid with an empty cell whose selected cell takes no digit
DeadEnd(g) == HasZero(g) /\ LegalDigits(g, FirstEmpty(g)) = {}

\* what the step pushed
Pushed == SubSeq(solution_stack', Len(solution_stack) + 1, Len(solution_stack'))

(***************************************************************************)
(* C4: from a consistent initial grid the loop reaches Solved or Exhausted,*)
(* and every pushed child has fewer empty cells than the grid expanded.    *)
(***************************************************************************)
C4_Terminates ==
  /\ <>(~Unique(init_board) \/ Done)
  /\ [][(Unique(init_board) /\ pc = "popped" /\ pc' = "loop") =>
          \A i \in 1..Len(Pushed) : NumZeros(Pushed[i]) < NumZeros(board)]_vars

C4_Witness ==
  /\ Unique(init_board)
  /\ Done
  /\ Len(popped) >= 4

(***************************************************************************)
(* C6: the children of an expanded grid are pushed in ascending digit      *)
(* order, the grid popped next is the one with the largest legal digit,    *)
(* and no grid is popped after a grid that differs from it only by a lower *)
(* digit in one cell the search filled (depth-first, higher digits first). *)
(***************************************************************************)
\* y lies below a sibling of x, or of an ancestor of x, with a higher digit
HigherBranch(y, x) ==
  LET D == {q \in Cells : At(x, q) # 0 /\ At(y, q) # At(x, q)}
  IN  /\ Cardinality(D) = 1
      /\ \A q \in D : At(y, q) > At(x, q)

C6_Order ==
  /\ [](pc = "popped" => \A i \in 1..(Len(popped) - 1) : ~HigherBranch(board, popped[i]))
  /\ [][(pc = "popped" /\ pc' = "loop") =>
          LET p == FirstEmpty(board)
              ds == Ascending(LegalDigits(board, p))
          IN  /\ Len(Pushed) = Len(ds)
              /\ \A i \in 1..Len(ds) : Pushed[i] = Fill(board, p, ds[i])]_vars
  /\ [][(pc = "loop" /\ pc' = "popped" /\ popped # <<>>
           /\ LegalDigits(board, FirstEmpty(board)) # {}) =>
          popped'[Len(popped')] =
            Fill(board, FirstEmpty(board), Max(LegalDigits(board, FirstEmpty(board))))]_vars

\* a lower-digit child is popped after the subtree of a higher sibling
C6_Witness ==
  /\ pc = "popped"
  /\ \E i \in 1..(Len(popped) - 2) :
       /\ HigherBranch(popped[i], board)
       /\ \E j \in (i + 1)..(Len(popped) - 1) : Extends(popped[j], popped[i]) /\ popped[j] # popped[i]

(***************************************************************************)
(* C7: an initial grid that violates uniqueness is rejected before the     *)
(* search: nothing is popped and the outcome is neither a grid nor None.   *)
(***************************************************************************)
C7_InvalidRejected ==
  ~Unique(init_board) => (popped = <<>> /\ pc \notin {"solved", "exhausted"})

(***************************************************************************)
(* C8: None is returned exactly when the stack is empty and no full grid   *)
(* was popped; every grid handed to next_unassigned_cell has an empty      *)
(* cell, so the search never raises.                                       *)
(***************************************************************************)
C8_NoFault ==
  /\ pc # "crashed"
  /\ (pc = "loop" /\ popped # <<>>) => HasZero(board)
  /\ pc \in Terminal =>
       (pc = "exhausted" <=>
          (solution_stack = <<>> /\ \A i \in 1..Len(popped) : HasZero(popped[i])))
  /\ pc = "exhausted" => result = <<>>

C8_Witness ==
  /\ pc = "exhausted"
  /\ Len(popped) >= 2

(***************************************************************************)
(* C9: a full valid initial grid is returned on the first pop; nothing is  *)
(* expanded and nothing is pushed.                                         *)
(***************************************************************************)
C9_FullReturnsAtOnce ==
  /\ [](NoZero(init_board) /\ Unique(init_board) =>
          /\ pc \in {"loop", "popped", "solved"}
          /\ pc = "loop" => popped = <<>> /\ solution_stack = <<init_board>>
          /\ pc # "loop" => popped = <<init_board>> /\ solution_stack = <<>>
          /\ pc = "solved" <=> result = <<init_board>>)
  /\ [][(NoZero(init_board) /\ Unique(init_board) /\ pc = "popped") => pc' = "solved"]_vars

C9_Witness ==
  /\ NoZero(init_board)
  /\ Unique(init_board)
  /\ pc = "solved"
  /\ result = <<init_board>>

(***************************************************************************)
(* C10: expanding a dead end pushes nothing; the next step pops the grid   *)
(* that was below it or, with the stack empty, returns None.  A grid with  *)
(* one empty cell and no legal digit yields None after one pop.            *)
(***************************************************************************)
C10_DeadEnd ==
  /\ [][(pc = "popped" /\ DeadEnd(board)) =>
          (pc' = "loop" /\ Pushed = <<>> /\ solution_stack' = solution_stack)]_vars
  /\ [][(pc = "loop" /\ popped # <<>> /\ DeadEnd(board) /\ solution_stack # <<>>) =>
          /\ pc' = "popped"
          /\ popped' = Append(popped, solution_stack[Len(solution_stack)])
          /\ solution_stack' = SubSeq(solution_stack, 1, Len(solution_stack) - 1)]_vars
  /\ [][(pc = "loop" /\ popped # <<>> /\ DeadEnd(board) /\ solution_stack = <<>>) =>
          (pc' = "exhausted" /\ result' = <<>>)]_vars
  /\ []((NumZeros(init_board) = 1 /\ DeadEnd(init_board) /\ pc \in Terminal) =>
          (pc = "exhausted" /\ popped = <<init_board>>))

\* a dead end was expanded and there is a grid to go back to
C10_Witness ==
  /\ pc = "loop"
  /\ popped # <<>>
  /\ DeadEnd(board)
  /\ solution_stack # <<>>

(***************************************************************************)
(* C11: for an empty cell and a digit 1..9, move_is_valid is false exactly *)
(* when the digit is in the cell's row, column or 3x3 box (checked on      *)
(* every popped board, for each of its empty cells).                       *)
(***************************************************************************)
InRow(g, p, d) == \E c \in Idx : g[p[1]][c] = d

InCol(g, p, d) == \E r \in Idx : g[r][p[2]] = d

InBox(g, p, d) ==
  \E i \in 0..2 : \E j \in 0..2 : g[(3 * (p[1] \div 3)) + i][(3 * (p[2] \div 3)) + j] = d

C11_MoveValidIffAbsent ==
  pc = "popped" =>
    \A p \in Cells : At(board, p) = 0 =>
      \A d \in 1..9 :
        ~move_is_valid(board, d, p[1], p[2]) <=>
          (InRow(board, p, d) \/ InCol(board, p, d) \/ InBox(board, p, d))

\* an empty cell with a legal digit, and digits refused by row, column, box alone
C11_Witness ==
  /\ pc = "popped"
  /\ \E p \in Cells :
       /\ At(board, p) = 0
       /\ \E d \in 1..9 : move_is_valid(board, d, p[1], p[2])
       /\ \E d \in 1..9 : InRow(board, p, d) /\ ~InCol(board, p, d) /\ ~InBox(board, p, d)
       /\ \E d \in 1..9 : ~InRow(board, p, d) /\ InCol(board, p, d) /\ ~InBox(board, p, d)
       /\ \E d \in 1..9 : ~InRow(board, p, d) /\ ~InCol(board, p, d) /\ InBox(board, p, d)

(***************************************************************************)
(* C12: for a cell that is not empty, move_is_valid is false for every     *)
(* digit 1..9.                                                             *)
(***************************************************************************)
C12_FilledCellRefused ==
  pc = "popped" =>
    \A p \in Cells : At(board, p) # 0 =>
      \A d \in 1..9 : ~move_is_valid(board, d, p[1], p[2])

(***************************************************************************)
(* C13: next_unassigned_cell returns an empty cell, and every cell before  *)
(* it in row-major order (a lower row, or the same row and a lower column) *)
(* is not empty.                                                           *)
(***************************************************************************)
C13_FirstEmptyRowMajor ==
  (pc = "popped" /\ HasZero(board)) =>
    LET p == next_unassigned_cell(board)
    IN  /\ p \in Cells
        /\ At(board, p) = 0
        /\ \A q \in Cells :
             (q[1] < p[1] \/ (q[1] = p[1] /\ q[2] < p[2])) => At(board, q) # 0

\* the cell returned is in neither the first row nor the first column, and
\* an empty cell lies in a lower column of a later row
C13_Witness ==
  /\ pc = "popped"
  /\ HasZero(board)
  /\ next_unassigned_cell(board)[1] > 0
  /\ next_unassigned_cell(board)[2] > 0
  /\ \E q \in Cells :
       /\ At(board, q) = 0
       /\ q[1] > next_unassigned_cell(board)[1]
       /\ q[2] < next_unassigned_cell(board)[2]

(***************************************************************************)
(* C14: for an empty cell, gen_possible_boards returns one grid per digit  *)
(* that move_is_valid accepts, in ascending digit order and nothing else;  *)
(* each grid holds its digit at the cell, equals the board in the other    *)
(* 80 cells and has one empty cell fewer.                                  *)
(***************************************************************************)
C14_ChildrenExact ==
  pc = "popped" =>
    LET zeros == NumZeros(board)
    IN  \A p \in Cells : At(board, p) = 0 =>
      LET gs == gen_possible_boards(board, p[1], p[2])
          ds == {d \in 1..9 : move_is_valid(board, d, p[1], p[2])}
      IN  /\ Len(gs) = Cardinality(ds)
          /\ \A i \in 1..Len(gs) :
               /\ At(gs[i], p) \in ds
               /\ gs[i] = Fill(board, p, At(gs[i], p))
               /\ NumZeros(gs[i]) = zeros - 1
          /\ \A i \in 1..(Len(gs) - 1) : At(gs[i], p) < At(gs[i + 1], p)

\* an empty cell off the diagonal with several children and a refused digit
C14_Witness ==
  /\ pc = "popped"
  /\ \E p \in Cells :
       /\ At(board, p) = 0
       /\ p[1] # p[2]
       /\ Len(gen_possible_boards(board, p[1], p[2])) \in 2..8

(***************************************************************************)
(* C15: which_box is defined on every cell with a box number 1..9, every   *)
(* box number has exactly 9 cells, the boxes cover the 81 cells once each, *)
(* and the view of a cell's box contains the cell and only cells of the    *)
(* same box number, so that get_box of a box holds the values of the nine  *)
(* cells of that 3x3 block and no other.                                   *)
(***************************************************************************)
BoxMembers(k) == {p \in Cells : which_box(p[1], p[2]) = k}

ViewCells(k) == box_num_to_view[k].rows \X box_num_to_view[k].cols

\* the part that is about the two tables alone
BoxTablesAgree ==
  /\ \A p \in Cells : which_box(p[1], p[2]) \in 1..9
  /\ \A k \in 1..9 : Cardinality(BoxMembers(k)) = 9
  /\ UNION {BoxMembers(k) : k \in 1..9} = Cells
  /\ \A k \in 1..9 : \A m \in 1..9 : k # m => BoxMembers(k) \cap BoxMembers(m) = {}
  /\ DOMAIN box_num_to_view = 1..9
  /\ \A p \in Cells :
       /\ p \in ViewCells(which_box(p[1], p[2]))
       /\ \A q \in ViewCells(which_box(p[1], p[2])) :
            which_box(q[1], q[2]) = which_box(p[1], p[2])

C15_BoxPartition ==
  /\ BoxTablesAgree
  /\ \A k \in 1..9 :
       get_box(init_board, k) = {At(init_board, BoxUnit(k - 1)[i]) : i \in 1..9}

\* the search has looked up the box and the view of a cell of the last box
C15_Witness ==
  /\ pc = "loop"
  /\ popped # <<>>
  /\ HasZero(board)
  /\ which_box(next_unassigned_cell(board)[1], next_unassigned_cell(board)[2]) = 9

(***************************************************************************)
(* C16: no array changes once made.  gen_possible_boards leaves the board  *)
(* it is given as it was and returns new arrays, distinct from it and from *)
(* each other; the caller's initial grid keeps its value; and every grid   *)
(* that stays on the stack over a step keeps its value.  (The three tests  *)
(* move_is_valid, board_is_full and next_unassigned_cell only read.)       *)
(***************************************************************************)
C16_NoMutation ==
  /\ [](caller_board = init_board)
  /\ []((pc = "popped" /\ HasZero(board)) =>
          LET p == next_unassigned_cell(board)
              arrays == gen_arrays(board, p[1], p[2])
          IN  /\ gen_board_after(board, p[1], p[2]) = board
              /\ \A i \in 1..Len(arrays) : arrays[i] # 0
              /\ \A i \in 1..Len(arrays) : \A j \in 1..Len(arrays) :
                   i # j => arrays[i] # arrays[j])
  /\ [][\A i \in 1..Len(solution_stack) :
          i <= Len(solution_stack') => solution_stack'[i] = solution_stack[i]]_vars
  /\ [](\A i \in 1..Len(stack_ids) :
          /\ stack_ids[i] # board_id
          /\ stack_ids[i] = 0 => (i = 1 /\ popped = <<>>)
          /\ \A j \in 1..Len(stack_ids) : i # j => stack_ids[i] # stack_ids[j])

\* grids were expanded while other grids waited on the stack
C16_Witness ==
  /\ pc = "loop"
  /\ Len(popped) >= 3
  /\ Len(solution_stack) >= 3
  /\ caller_board = init_board

(***************************************************************************)
(* C17: for a consistent initial grid with a valid completion, the grid    *)
(* returned is a valid completion and no valid completion is greater, the  *)
(* cells read in row-major order.  (Checked for every input but the        *)
(* all-empty board, whose completions are too many to enumerate.)          *)
(***************************************************************************)
\* the place of a cell in row-major order
RowMajor(p) == (9 * p[1]) + p[2]

\* h is not greater than g, the cells read in row-major order
LexLeq(h, g) ==
  LET D == {p \in Cells : At(h, p) # At(g, p)}
  IN  D # {} =>
        LET first == CHOOSE p \in D : \A q \in D : RowMajor(p) <= RowMajor(q)
        IN  At(h, first) < At(g, first)

C17_GreatestCompletion ==
  (pc = "solved" /\ Unique(init_board) /\ init_board # EmptyBoard) =>
    /\ result[1] \in Completions(init_board)
    /\ \A h \in Completions(init_board) : LexLeq(h, result[1])

\* a consistent grid with several completions, solved after some search
C17_Witness ==
  /\ pc = "solved"
  /\ Unique(init_board)
  /\ init_board # EmptyBoard
  /\ Cardinality(Completions(init_board)) >= 2
  /\ Len(popped) >= 3

(***************************************************************************)
(* C18: givens are preserved: every grid on the stack, the grid popped     *)
(* and the grid returned hold the initial grid's digit in every cell that  *)
(* is non-zero in the initial grid.                                        *)
(***************************************************************************)
C18_GivensPreserved ==
  /\ \A i \in 1..Len(solution_stack) : Extends(solution_stack[i], init_board)
  /\ Len(popped) > 0 => Extends(board, init_board)
  /\ pc = "solved" => Extends(result[1], init_board)

\* a grid with givens, returned after the search wrote other cells
C18_Witness ==
  /\ pc = "solved"
  /\ \E p \in Cells : At(init_board, p) # 0
  /\ result[1] # init_board
  /\ Len(popped) >= 3

(***************************************************************************)
(* C19: with E empty cells in the initial grid the stack never holds more  *)
(* than 8*E + 1 grids, which is at most 649 and below SOLUTION_STACK_SIZE, *)
(* and from the bottom of the stack to its top the number of empty cells   *)
(* of the grids never increases.                                           *)
(***************************************************************************)
C19_StackBound ==
  LET E == NumZeros(init_board)
      zeros == [i \in 1..Len(solution_stack) |-> NumZeros(solution_stack[i])]
  IN  /\ Len(solution_stack) <= (8 * E) + 1
      /\ (8 * E) + 1 <= 649
      /\ 649 < SOLUTION_STACK_SIZE
      /\ \A i \in 1..(Len(solution_stack) - 1) : zeros[i] >= zeros[i + 1]

\* a stack of several grids with different numbers of empty cells
C19_Witness ==
  /\ pc = "loop"
  /\ Len(solution_stack) >= 3
  /\ NumZeros(solution_stack[1]) > NumZeros(Top(solution_stack))

(***************************************************************************)
(* C20: whatever the initial grid, consistent or not, the loop reaches     *)
(* Solved or Exhausted after finitely many pops: every pop takes one grid  *)
(* off the stack and every grid pushed has fewer empty cells than the grid *)
(* it was made from.                                                       *)
(***************************************************************************)
C20_AlwaysTerminates ==
  /\ <>Done
  /\ [][(pc = "loop" /\ pc' = "popped") =>
          Len(solution_stack') = Len(solution_stack) - 1]_vars
  /\ [][(pc = "popped" /\ pc' = "loop") =>
          \A i \in 1..Len(Pushed) : NumZeros(Pushed[i]) < NumZeros(board)]_vars

\* an inconsistent grid whose search ended after several pops
C20_Witness ==
  /\ ~Unique(init_board)
  /\ Done
  /\ Len(popped) >= 3

=============================================================================
